---- MODULE Spec2Model ----
(***************************************************************************)
(* Ownership semantics of the Smart_Pointers_Cpp examples (src/main.cpp):  *)
(* std::shared_ptr / std::weak_ptr on Person, std::unique_ptr and vectors  *)
(* of them, the Post/Comment graph, and the FileHandler RAII wrapper.      *)
(* Each group of examples is a specification of its own over the shared    *)
(* variables; the variables of the other groups stay at their Init value.  *)
(***************************************************************************)
EXTENDS Integers, Sequences, FiniteSets, TLC

\* ------------------------------------------------------------------ bounds
\* make_shared<Person>() calls (control blocks) in one run
MaxVals == 2
\* owners ever added to one family after its make_shared (copies, locks)
MaxCopies == 2

\* std::make_unique<Person>() calls in one run
MaxObjs == 3
\* elements pushed into the persons vector in one run
MaxVec == 3

\* post->comments.push_back calls in one run
MaxPush == 3

\* writeData calls on one FileHandler
MaxWrites == 2
\* readData calls on one FileHandler
MaxReads == 2

\* nullptr: what an empty shared_ptr / weak_ptr / unique_ptr holds
Null == 0

Vals == 1..MaxVals
\* The shared_ptr<Person> variables of the shared_ptr example of main.
OwnerSlots == {"p1", "p2", "p3"}
\* The shared_ptr<Person> variables of the weak_ptr example of main.
LockSlots == {"sharedPtr3", "sharedLocked"}
\* The shared_ptr<Person> variable main resets and then tests for emptiness.
DerefSlots == {"personPtrSimple1"}
\* Every shared_ptr<Person> variable.
SharedSlots == OwnerSlots \union LockSlots \union DerefSlots
\* The weak_ptr<Person> variables: weakPtr of main and a second observer.
WeakSlots == {"weakPtr", "weakPtr2"}
\* The unique_ptr<Person> variables of main.
UniqueSlots == {"personPtr1", "person"}
\* The Person objects std::make_unique may return.
Objs == 1..MaxObjs
\* The shared_ptr<Post> variables of main: post, and the result of post.lock().
PostSlots == {"post", "sharedPost"}
\* The one Post std::make_shared<Post>() returns.
Posts == {1}
\* The Comments, each first owned by the variable of its name.
Comments == {"comment1", "comment2", "comment3"}
\* The end-of-line character.
NL == "\n"
\* What example.txt may hold before the program runs.
OldContents == {<<>>, <<"Z">>, <<"Z", "Z", "Z">>, <<"Z", NL>>}
\* The strings passed to writeData.
Datas == {<<"A">>, <<"B">>, <<"A", NL>>, <<"B", NL>>}
\* No operand.
None == "-"

VARIABLES
  sp,        \* sp[s]: the control block shared_ptr variable s refers to, or Null
  inScope,   \* inScope[s]: the shared_ptr variable s is declared and not yet destroyed
  wp,        \* wp[w]: the control block weak_ptr variable w refers to, or Null
  wInScope,  \* wInScope[w]: the weak_ptr variable w is declared and not yet destroyed
  cb,        \* cb[v]: control block of the v-th make_shared
  nAlloc,    \* number of make_shared<Person>() calls so far
  k,         \* k[v]: owners added to family v after its creation (history)
  m,         \* m[v]: owners of family v released so far (history)
  up,        \* up[u]: the Person the unique_ptr variable u owns, or Null
  uInScope,  \* uInScope[u]: the unique_ptr variable u is declared and not yet destroyed
  persons,   \* the vector<unique_ptr<Person>>: the Person (or Null) each element owns
  personsLive, \* the vector has not been destroyed yet
  uLive,     \* the Persons made by make_unique and not yet deleted
  uAlloc,    \* number of std::make_unique<Person>() calls so far
  uDtor,     \* uDtor[o]: how many times Person o has been deleted
  postOwner, \* postOwner[s]: the Post the shared_ptr<Post> variable s owns, or Null
  postIn,    \* postIn[s]: the shared_ptr<Post> variable s is in scope
  postCb,    \* postCb[p]: control block of Post p
  comments,  \* post->comments: the Comment each element owns
  cVar,      \* cVar[c]: "undeclared", "owns" (the variable owns Comment c) or "gone"
  cCb,       \* cCb[c]: control block of Comment c
  cPost,     \* cPost[c]: the Post the member Comment::post of c observes, or Null
  fpc,       \* where main is: "start", "body" (file is alive), "catch", "done", "exit1"
  openable,  \* the constructor found example.txt openable for reading and writing
  old,       \* what example.txt held when the constructor ran
  disk,      \* what example.txt holds
  fs,        \* FileHandler::fileStream: [open, fail, eof, pos, opens, closes]
  fhLive,    \* the FileHandler object file exists
  written,   \* everything passed to writeData so far, in order
  writes,    \* number of writeData calls
  reads,     \* number of readData calls that returned
  content,   \* what the last readData returned
  exc,       \* the exception thrown: "none", "runtime_error", "bad_alloc"
  last       \* the operation executed last: [op, a, b]

sharedVars == <<sp, inScope, wp, wInScope, cb, nAlloc, k, m>>

uniqueVars == <<up, uInScope, persons, personsLive, uLive, uAlloc, uDtor>>

postVars == <<postOwner, postIn, postCb, comments, cVar, cCb, cPost>>

fileVars == <<fpc, openable, old, disk, fs, fhLive, written, writes, reads, content, exc>>

vars == <<sharedVars, uniqueVars, postVars, fileVars, last>>

otherThanShared == <<uniqueVars, postVars, fileVars>>

otherThanUnique == <<sharedVars, postVars, fileVars>>

otherThanPost == <<sharedVars, uniqueVars, fileVars>>

otherThanFile == <<sharedVars, uniqueVars, postVars>>

Op(o, a, b) == [op |-> o, a |-> a, b |-> b]

\* ---------------------------------------------------------- control block
\* A control block that no make_shared has produced yet.
cbNone == [strong |-> 0, weak |-> 0, alive |-> FALSE, dtor |-> 0, freed |-> FALSE, made |-> FALSE]

\* std::make_shared<T>(): the object and a use count of 1.
cbNew == [strong |-> 1, weak |-> 0, alive |-> TRUE, dtor |-> 0, freed |-> FALSE, made |-> TRUE]

\* Faulty variant of cbAddRef: a copy that forgets to count itself.
cbAddRef_noIncrement(c) == c

\* One more shared_ptr owns the object (copy construction, copy assignment, lock).
cbAddRef(c) == [c EXCEPT !.strong = @ + 1]

\* Faulty variant of cbRelease: the object's destructor runs on every release.
cbRelease_eager(c) ==
  [c EXCEPT !.strong = @ - 1, !.alive = FALSE, !.dtor = @ + 1,
            !.freed = (c.strong = 1 /\ c.weak = 0)]

\* A shared_ptr gives up the object (reset, destructor, overwritten by assignment):
\* the last one runs the object's destructor; the block is freed when no weak_ptr
\* refers to it either.
cbRelease(c) ==
  LET n == c.strong - 1 IN
  [c EXCEPT !.strong = n,
            !.alive = IF n = 0 THEN FALSE ELSE @,
            !.dtor = IF n = 0 THEN @ + 1 ELSE @,
            !.freed = (n = 0 /\ c.weak = 0)]

\* Faulty variant of cbWeakAdd: the observer is counted as an owner.
cbWeakAdd_owning(c) == [c EXCEPT !.weak = @ + 1, !.strong = @ + 1]

\* One more weak_ptr refers to the block: the use count is not touched.
cbWeakAdd(c) == [c EXCEPT !.weak = @ + 1]

\* A weak_ptr is destroyed: the block is freed if the object is gone and this was
\* the last weak_ptr.
cbWeakRelease(c) ==
  [c EXCEPT !.weak = @ - 1, !.freed = (c.strong = 0 /\ c.weak = 1)]

\* shared_ptr::use_count() of a pointer value p.
use_count(cbs, p) == IF p = Null THEN 0 ELSE cbs[p].strong

\* Faulty variant of lockTarget: lock() that does not look at the use count.
lockTarget_unchecked(cbs, p) == p

\* weak_ptr::lock(): the pointer the returned shared_ptr holds.
lockTarget(cbs, p) == IF p # Null /\ cbs[p].strong > 0 THEN p ELSE Null

\* The control blocks after a shared_ptr to p has been added / released.
addRefAt(cbs, p) == IF p = Null THEN cbs ELSE [cbs EXCEPT ![p] = cbAddRef(@)]

releaseAt(cbs, p) == IF p = Null THEN cbs ELSE [cbs EXCEPT ![p] = cbRelease(@)]

\* Faulty variant of weakAddAt: the observer is a second owner (a shared_ptr member).
weakAddAt_owning(cbs, p) ==
  IF p = Null THEN cbs ELSE [cbs EXCEPT ![p] = cbAddRef(cbWeakAdd(@))]

weakAddAt(cbs, p) == IF p = Null THEN cbs ELSE [cbs EXCEPT ![p] = cbWeakAdd(@)]

weakReleaseAt(cbs, p) == IF p = Null THEN cbs ELSE [cbs EXCEPT ![p] = cbWeakRelease(@)]

bump(f, p) == IF p = Null THEN f ELSE [f EXCEPT ![p] = @ + 1]

\* Room left in the history counter of family p.
canAdd(p) == IF p = Null THEN TRUE ELSE k[p] < MaxCopies

\* ------------------------------------------------------------------- Init
Init ==
  /\ sp = [s \in SharedSlots |-> Null]
  /\ inScope = [s \in SharedSlots |-> FALSE]
  /\ wp = [w \in WeakSlots |-> Null]
  /\ wInScope = [w \in WeakSlots |-> FALSE]
  /\ cb = [v \in Vals |-> cbNone]
  /\ nAlloc = 0
  /\ k = [v \in Vals |-> 0]
  /\ m = [v \in Vals |-> 0]
  /\ up = [u \in UniqueSlots |-> Null]
  /\ uInScope = [u \in UniqueSlots |-> FALSE]
  /\ persons = <<>>
  /\ personsLive = TRUE
  /\ uLive = {}
  /\ uAlloc = 0
  /\ uDtor = [o \in Objs |-> 0]
  /\ postOwner = [s \in PostSlots |-> Null]
  /\ postIn = [s \in PostSlots |-> FALSE]
  /\ postCb = [p \in Posts |-> cbNone]
  /\ comments = <<>>
  /\ cVar = [c \in Comments |-> "undeclared"]
  /\ cCb = [c \in Comments |-> cbNone]
  /\ cPost = [c \in Comments |-> Null]
  /\ fpc = "start"
  /\ openable = FALSE
  /\ old = <<>>
  /\ disk = <<>>
  /\ fs = [open |-> FALSE, fail |-> FALSE, eof |-> FALSE, pos |-> 0, opens |-> 0, closes |-> 0]
  /\ fhLive = FALSE
  /\ written = <<>>
  /\ writes = 0
  /\ reads = 0
  /\ content = <<>>
  /\ exc = "none"
  /\ last = Op("init", None, None)

\* ------------------------------------------------ shared_ptr / weak_ptr ops
\* std::shared_ptr<Person> s = std::make_shared<Person>();
make_shared(s) ==
  /\ ~inScope[s]
  /\ nAlloc < MaxVals
  /\ nAlloc' = nAlloc + 1
  /\ cb' = [cb EXCEPT ![nAlloc + 1] = cbNew]
  /\ sp' = [sp EXCEPT ![s] = nAlloc + 1]
  /\ inScope' = [inScope EXCEPT ![s] = TRUE]
  /\ last' = Op("make_shared", s, None)
  /\ UNCHANGED <<wp, wInScope, k, m>>
  /\ UNCHANGED otherThanShared

\* std::shared_ptr<Person> s{t};  and  personPtrSimples.push_back(t);
copy(s, t) ==
  /\ ~inScope[s]
  /\ inScope[t]
  /\ canAdd(sp[t])
  /\ cb' = addRefAt(cb, sp[t])
  /\ sp' = [sp EXCEPT ![s] = sp[t]]
  /\ inScope' = [inScope EXCEPT ![s] = TRUE]
  /\ k' = bump(k, sp[t])
  /\ last' = Op("copy", s, t)
  /\ UNCHANGED <<wp, wInScope, nAlloc, m>>
  /\ UNCHANGED otherThanShared

\* s.reset();
reset(s) ==
  /\ inScope[s]
  /\ cb' = releaseAt(cb, sp[s])
  /\ sp' = [sp EXCEPT ![s] = Null]
  /\ m' = bump(m, sp[s])
  /\ last' = Op("reset", s, None)
  /\ UNCHANGED <<inScope, wp, wInScope, nAlloc, k>>
  /\ UNCHANGED otherThanShared

\* s goes out of scope: ~shared_ptr().
scopeExit(s) ==
  /\ inScope[s]
  /\ cb' = releaseAt(cb, sp[s])
  /\ sp' = [sp EXCEPT ![s] = Null]
  /\ inScope' = [inScope EXCEPT ![s] = FALSE]
  /\ m' = bump(m, sp[s])
  /\ last' = Op("scopeExit", s, None)
  /\ UNCHANGED <<wp, wInScope, nAlloc, k>>
  /\ UNCHANGED otherThanShared

\* Faulty variant of assignCbs: what the destination held is not released.
assignCbs_leaks(cbs, pd, ps) == addRefAt(cbs, ps)

\* Faulty variant of assignCbs: what the destination held is released before the
\* copy of the source is made.
assignCbs_releaseFirst(cbs, pd, ps) == addRefAt(releaseAt(cbs, pd), ps)

\* The control blocks after a shared_ptr holding pd has been assigned one
\* holding ps: shared_ptr(source).swap(destination), the copy of the source is
\* made first, then what the destination held is released.
assignCbs(cbs, pd, ps) == releaseAt(addRefAt(cbs, ps), pd)

\* d = s;
assign(d, s) ==
  /\ inScope[d]
  /\ inScope[s]
  /\ canAdd(sp[s])
  /\ cb' = assignCbs(cb, sp[d], sp[s])
  /\ sp' = [sp EXCEPT ![d] = sp[s]]
  /\ k' = bump(k, sp[s])
  /\ m' = bump(m, sp[d])
  /\ last' = Op("assign", d, s)
  /\ UNCHANGED <<inScope, wp, wInScope, nAlloc>>
  /\ UNCHANGED otherThanShared

\* std::weak_ptr<Person> w = s;
weak_from_shared(w, s) ==
  /\ ~wInScope[w]
  /\ inScope[s]
  /\ cb' = weakAddAt(cb, sp[s])
  /\ wp' = [wp EXCEPT ![w] = sp[s]]
  /\ wInScope' = [wInScope EXCEPT ![w] = TRUE]
  /\ last' = Op("weak_from_shared", w, s)
  /\ UNCHANGED <<sp, inScope, nAlloc, k, m>>
  /\ UNCHANGED otherThanShared

\* std::weak_ptr<Person> w = x;  (x another weak_ptr)
weak_copy(w, x) ==
  /\ ~wInScope[w]
  /\ wInScope[x]
  /\ cb' = weakAddAt(cb, wp[x])
  /\ wp' = [wp EXCEPT ![w] = wp[x]]
  /\ wInScope' = [wInScope EXCEPT ![w] = TRUE]
  /\ last' = Op("weak_copy", w, x)
  /\ UNCHANGED <<sp, inScope, nAlloc, k, m>>
  /\ UNCHANGED otherThanShared

\* w goes out of scope: ~weak_ptr().
weak_destroy(w) ==
  /\ wInScope[w]
  /\ cb' = weakReleaseAt(cb, wp[w])
  /\ wp' = [wp EXCEPT ![w] = Null]
  /\ wInScope' = [wInScope EXCEPT ![w] = FALSE]
  /\ last' = Op("weak_destroy", w, None)
  /\ UNCHANGED <<sp, inScope, nAlloc, k, m>>
  /\ UNCHANGED otherThanShared

\* std::shared_ptr<Person> s = w.lock();
lock(s, w) ==
  /\ ~inScope[s]
  /\ wInScope[w]
  /\ canAdd(lockTarget(cb, wp[w]))
  /\ cb' = addRefAt(cb, lockTarget(cb, wp[w]))
  /\ sp' = [sp EXCEPT ![s] = lockTarget(cb, wp[w])]
  /\ inScope' = [inScope EXCEPT ![s] = TRUE]
  /\ k' = bump(k, lockTarget(cb, wp[w]))
  /\ last' = Op("lock", s, w)
  /\ UNCHANGED <<wp, wInScope, nAlloc, m>>
  /\ UNCHANGED otherThanShared

\* The shared_ptr example: p1, p2, p3 and the personPtrSimple variables.
NextShared ==
  \/ \E s \in OwnerSlots : make_shared(s)
  \/ \E s, t \in OwnerSlots : copy(s, t)
  \/ \E s \in OwnerSlots : reset(s)
  \/ \E s \in OwnerSlots : scopeExit(s)
  \/ \E d, s \in OwnerSlots : assign(d, s)

Spec == Init /\ [][NextShared]_vars

\* The weak_ptr example: sharedPtr3, weakPtr and the result of lock().
NextWeak ==
  \/ \E s \in LockSlots : make_shared(s)
  \/ \E s \in LockSlots : reset(s)
  \/ \E s \in LockSlots : scopeExit(s)
  \/ \E w \in WeakSlots, s \in LockSlots : weak_from_shared(w, s)
  \/ \E w, x \in WeakSlots : weak_copy(w, x)
  \/ \E w \in WeakSlots : weak_destroy(w)
  \/ \E s \in LockSlots, w \in WeakSlots : lock(s, w)

SpecWeak == Init /\ [][NextWeak]_vars

\* ------------------------------------------------------------ unique_ptr ops
\* The owners of Person o: unique_ptr variables and vector elements.
uOwners(o) ==
  Cardinality({u \in UniqueSlots : up[u] = o})
    + Cardinality({i \in DOMAIN persons : persons[i] = o})

\* Faulty variant of movedFrom: the source of a move keeps its pointer.
movedFrom_keeps(p) == p

\* What a unique_ptr holds after std::move has taken its pointer.
movedFrom(p) == Null

\* Faulty variant of vecPushBack: the pointer is lost on the way into the vector.
vecPushBack_drops(vec, p) == Append(vec, Null)

\* vector::push_back(unique_ptr&&): the new last element takes the pointer.
vecPushBack(vec, p) == Append(vec, p)

\* ~unique_ptr() / reset(): delete the Person, if any.
deleteObj(live, p) == live \ {p}

\* std::unique_ptr<Person> u = std::make_unique<Person>();
make_unique(u) ==
  /\ ~uInScope[u]
  /\ uAlloc < MaxObjs
  /\ uAlloc' = uAlloc + 1
  /\ uLive' = uLive \union {uAlloc + 1}
  /\ up' = [up EXCEPT ![u] = uAlloc + 1]
  /\ uInScope' = [uInScope EXCEPT ![u] = TRUE]
  /\ last' = Op("make_unique", u, None)
  /\ UNCHANGED <<persons, personsLive, uDtor>>
  /\ UNCHANGED otherThanUnique

\* persons.push_back(std::move(u));
push_back_move(u) ==
  /\ uInScope[u]
  /\ personsLive
  /\ Len(persons) < MaxVec
  /\ persons' = vecPushBack(persons, up[u])
  /\ up' = [up EXCEPT ![u] = movedFrom(up[u])]
  /\ last' = Op("push_back_move", u, None)
  /\ UNCHANGED <<uInScope, personsLive, uLive, uAlloc, uDtor>>
  /\ UNCHANGED otherThanUnique

\* uniquePtrVector.push_back(std::make_unique<Person>(...));
push_back_make_unique ==
  /\ personsLive
  /\ Len(persons) < MaxVec
  /\ uAlloc < MaxObjs
  /\ uAlloc' = uAlloc + 1
  /\ uLive' = uLive \union {uAlloc + 1}
  /\ persons' = vecPushBack(persons, uAlloc + 1)
  /\ last' = Op("push_back_make_unique", None, None)
  /\ UNCHANGED <<up, uInScope, personsLive, uDtor>>
  /\ UNCHANGED otherThanUnique

\* The Persons deleted so far, after p has been deleted.
deleted(d, live, p) == IF p \in live THEN [d EXCEPT ![p] = @ + 1] ELSE d

\* u.reset();
unique_reset(u) ==
  /\ uInScope[u]
  /\ uLive' = deleteObj(uLive, up[u])
  /\ uDtor' = deleted(uDtor, uLive, up[u])
  /\ up' = [up EXCEPT ![u] = Null]
  /\ last' = Op("unique_reset", u, None)
  /\ UNCHANGED <<uInScope, persons, personsLive, uAlloc>>
  /\ UNCHANGED otherThanUnique

\* u goes out of scope: ~unique_ptr().
unique_scopeExit(u) ==
  /\ uInScope[u]
  /\ uLive' = deleteObj(uLive, up[u])
  /\ uDtor' = deleted(uDtor, uLive, up[u])
  /\ up' = [up EXCEPT ![u] = Null]
  /\ uInScope' = [uInScope EXCEPT ![u] = FALSE]
  /\ last' = Op("unique_scopeExit", u, None)
  /\ UNCHANGED <<persons, personsLive, uAlloc>>
  /\ UNCHANGED otherThanUnique

\* The elements of a vector, as a set.
Range(vec) == {vec[i] : i \in DOMAIN vec}

\* The vector goes out of scope: every element's ~unique_ptr() runs.
vector_destroy ==
  /\ personsLive
  /\ personsLive' = FALSE
  /\ uLive' = uLive \ Range(persons)
  /\ uDtor' = [o \in Objs |-> IF o \in Range(persons) /\ o \in uLive THEN uDtor[o] + 1 ELSE uDtor[o]]
  /\ persons' = <<>>
  /\ last' = Op("vector_destroy", None, None)
  /\ UNCHANGED <<up, uInScope, uAlloc>>
  /\ UNCHANGED otherThanUnique

\* The unique_ptr example: personPtr1, person, persons and uniquePtrVector.
NextUnique ==
  \/ \E u \in UniqueSlots : make_unique(u)
  \/ \E u \in UniqueSlots : push_back_move(u)
  \/ push_back_make_unique
  \/ \E u \in UniqueSlots : unique_reset(u)
  \/ \E u \in UniqueSlots : unique_scopeExit(u)
  \/ vector_destroy

SpecUnique == Init /\ [][NextUnique]_vars

\* ------------------------------------------------------- Post / Comment ops
\* How many elements of the vector own Comment c.
RECURSIVE occurrences(_, _)
occurrences(vec, c) ==
  IF vec = <<>> THEN 0
  ELSE (IF Head(vec) = c THEN 1 ELSE 0) + occurrences(Tail(vec), c)

\* A control block after n of its shared_ptr have been released.
RECURSIVE cbReleaseN(_, _)
cbReleaseN(c, n) == IF n = 0 THEN c ELSE cbReleaseN(cbRelease(c), n - 1)

\* The control blocks of the Posts after the weak_ptr members of the Comments
\* in cs have been destroyed.
RECURSIVE weakReleaseAll(_, _, _)
weakReleaseAll(cbs, obs, cs) ==
  IF cs = {} THEN cbs
  ELSE LET c == CHOOSE x \in cs : TRUE
       IN weakReleaseAll(weakReleaseAt(cbs, obs[c]), obs, cs \ {c})

\* The Comments' control blocks after ~Post() has destroyed the vector vec.
afterVectorDtor(ccbs, vec) ==
  [c \in Comments |-> cbReleaseN(ccbs[c], occurrences(vec, c))]

\* The Comments whose destructor ran between the control blocks old and new.
destroyedBetween(before, after) == {c \in Comments : before[c].alive /\ ~after[c].alive}

\* std::shared_ptr<Post> post = std::make_shared<Post>();
make_post ==
  /\ ~postIn["post"]
  /\ ~postCb[1].made
  /\ postCb' = [postCb EXCEPT ![1] = cbNew]
  /\ postOwner' = [postOwner EXCEPT !["post"] = 1]
  /\ postIn' = [postIn EXCEPT !["post"] = TRUE]
  /\ last' = Op("make_post", None, None)
  /\ UNCHANGED <<comments, cVar, cCb, cPost>>
  /\ UNCHANGED otherThanPost

\* std::shared_ptr<Comment> c = std::make_shared<Comment>();
make_comment(c) ==
  /\ cVar[c] = "undeclared"
  /\ cVar' = [cVar EXCEPT ![c] = "owns"]
  /\ cCb' = [cCb EXCEPT ![c] = cbNew]
  /\ cPost' = [cPost EXCEPT ![c] = Null]
  /\ last' = Op("make_comment", c, None)
  /\ UNCHANGED <<postOwner, postIn, postCb, comments>>
  /\ UNCHANGED otherThanPost

\* c->post = post;  weak_ptr = shared_ptr: observe what post owns, stop observing
\* what c->post observed.
set_comment_post(c) ==
  /\ cVar[c] = "owns"
  /\ postIn["post"]
  /\ postCb' = weakReleaseAt(weakAddAt(postCb, postOwner["post"]), cPost[c])
  /\ cPost' = [cPost EXCEPT ![c] = postOwner["post"]]
  /\ last' = Op("set_comment_post", c, None)
  /\ UNCHANGED <<postOwner, postIn, comments, cVar, cCb>>
  /\ UNCHANGED otherThanPost

\* post->comments.push_back(c);
comments_push_back(c) ==
  /\ cVar[c] = "owns"
  /\ postIn["post"]
  /\ postOwner["post"] # Null
  /\ Len(comments) < MaxPush
  /\ comments' = Append(comments, c)
  /\ cCb' = [cCb EXCEPT ![c] = cbAddRef(@)]
  /\ last' = Op("comments_push_back", c, None)
  /\ UNCHANGED <<postOwner, postIn, postCb, cVar, cPost>>
  /\ UNCHANGED otherThanPost

\* auto sharedPost = c->post.lock();  for a Comment c that is still alive
lock_post(c) ==
  /\ cCb[c].alive
  /\ ~postIn["sharedPost"]
  /\ postCb' = addRefAt(postCb, lockTarget(postCb, cPost[c]))
  /\ postOwner' = [postOwner EXCEPT !["sharedPost"] = lockTarget(postCb, cPost[c])]
  /\ postIn' = [postIn EXCEPT !["sharedPost"] = TRUE]
  /\ last' = Op("lock_post", c, None)
  /\ UNCHANGED <<comments, cVar, cCb, cPost>>
  /\ UNCHANGED otherThanPost

\* The shared_ptr<Post> variable s goes out of scope. The last owner runs ~Post():
\* the vector releases its Comments, and each Comment destroyed by that stops
\* observing the Post.
post_scopeExit(s) ==
  /\ postIn[s]
  /\ LET p == postOwner[s]
         released == releaseAt(postCb, p)
         dies == p # Null /\ ~released[p].alive
         ccbs == IF dies THEN afterVectorDtor(cCb, comments) ELSE cCb
         gone == destroyedBetween(cCb, ccbs)
     IN /\ cCb' = ccbs
        /\ comments' = IF dies THEN <<>> ELSE comments
        /\ postCb' = weakReleaseAll(released, cPost, gone)
        /\ cPost' = [c \in Comments |-> IF c \in gone THEN Null ELSE cPost[c]]
  /\ postOwner' = [postOwner EXCEPT ![s] = Null]
  /\ postIn' = [postIn EXCEPT ![s] = FALSE]
  /\ last' = Op("post_scopeExit", s, None)
  /\ UNCHANGED cVar
  /\ UNCHANGED otherThanPost

\* The shared_ptr<Comment> variable c goes out of scope. The last owner runs
\* ~Comment(), which destroys the member Comment::post.
comment_scopeExit(c) ==
  /\ cVar[c] = "owns"
  /\ cVar' = [cVar EXCEPT ![c] = "gone"]
  /\ LET ccbs == [cCb EXCEPT ![c] = cbRelease(@)]
         gone == destroyedBetween(cCb, ccbs)
     IN /\ cCb' = ccbs
        /\ postCb' = weakReleaseAll(postCb, cPost, gone)
        /\ cPost' = [x \in Comments |-> IF x \in gone THEN Null ELSE cPost[x]]
  /\ last' = Op("comment_scopeExit", c, None)
  /\ UNCHANGED <<postOwner, postIn, comments>>
  /\ UNCHANGED otherThanPost

\* The Post / Comment example.
NextPost ==
  \/ make_post
  \/ \E c \in Comments : make_comment(c)
  \/ \E c \in Comments : set_comment_post(c)
  \/ \E c \in Comments : comments_push_back(c)
  \/ \E c \in Comments : lock_post(c)
  \/ \E s \in PostSlots : post_scopeExit(s)
  \/ \E c \in Comments : comment_scopeExit(c)

SpecPost == Init /\ [][NextPost]_vars

\* ------------------------------------------------------------ FileHandler
\* std::fstream(filename): the stream after the attempt to open the file for
\* reading and writing, without truncating it.
fstreamOpen(f, ok) ==
  IF ok THEN [f EXCEPT !.open = TRUE, !.fail = FALSE, !.eof = FALSE, !.pos = 0, !.opens = @ + 1]
  ELSE [f EXCEPT !.open = FALSE, !.fail = TRUE]

\* Faulty variant of ctorThrows: the constructor does not test the stream.
ctorThrows_never(f) == FALSE

\* if (!fileStream) throw std::runtime_error(...)
ctorThrows(f) == f.fail

\* ~fstream(): the file is closed if it is open.
fstreamDtor(f) ==
  IF f.open THEN [f EXCEPT !.open = FALSE, !.closes = @ + 1] ELSE f

\* Faulty variant of unwind: an exception leaves the block without destroying file.
unwind_leaks(f) == f

\* Stack unwinding out of the try block: ~FileHandler() destroys fileStream.
unwind(f) == fstreamDtor(f)

\* The first n elements of a sequence, and the elements after the first n.
Take(s, n) == SubSeq(s, 1, IF n < Len(s) THEN n ELSE Len(s))

Drop(s, n) == SubSeq(s, n + 1, Len(s))

\* The file after data has been written at position pos: what was there is
\* overwritten, the file grows if it has to.
overwrite(d, pos, data) ==
  Take(d, pos) \o data \o Drop(d, pos + Len(data))

\* fileStream << data: nothing is written once a state bit is set.
insert(f, data) ==
  IF f.fail \/ f.eof THEN [f EXCEPT !.fail = TRUE]
  ELSE [f EXCEPT !.pos = @ + Len(data)]

\* fileStream.seekg(0): eofbit is cleared; the position moves unless failbit is set.
seekg0(f) ==
  IF f.fail THEN [f EXCEPT !.eof = FALSE]
  ELSE [f EXCEPT !.eof = FALSE, !.pos = 0]

\* The position of the first end-of-line after position pos, or 0.
RECURSIVE nextNL(_, _)
nextNL(d, pos) ==
  IF pos >= Len(d) THEN 0
  ELSE IF d[pos + 1] = NL THEN pos + 1 ELSE nextNL(d, pos + 1)

\* while (std::getline(fileStream, line)) content += line + '\n';
\* getline fails when a state bit is set or no character is left; a last line
\* without end-of-line is returned with eofbit set.
RECURSIVE getlineLoop(_, _, _)
getlineLoop(d, f, acc) ==
  IF f.fail \/ f.eof THEN [f |-> [f EXCEPT !.fail = TRUE], content |-> acc]
  ELSE IF f.pos >= Len(d) THEN [f |-> [f EXCEPT !.fail = TRUE, !.eof = TRUE], content |-> acc]
  ELSE LET q == nextNL(d, f.pos) IN
       IF q = 0
       THEN getlineLoop(d, [f EXCEPT !.pos = Len(d), !.eof = TRUE],
                        acc \o Drop(d, f.pos) \o <<NL>>)
       ELSE getlineLoop(d, [f EXCEPT !.pos = q],
                        acc \o SubSeq(d, f.pos + 1, q - 1) \o <<NL>>)

\* FileHandler file("example.txt");  ok: example.txt exists and may be opened for
\* reading and writing; o: what it holds.
FileHandler(ok, o) ==
  /\ fpc = "start"
  /\ openable' = ok
  /\ old' = o
  /\ disk' = o
  /\ LET f == fstreamOpen(fs, ok) IN
     IF ctorThrows(f)
     THEN /\ fs' = fstreamDtor(f)
          /\ fhLive' = FALSE
          /\ exc' = "runtime_error"
          /\ fpc' = "catch"
     ELSE /\ fs' = f
          /\ fhLive' = TRUE
          /\ exc' = exc
          /\ fpc' = "body"
  /\ last' = Op("FileHandler", None, None)
  /\ UNCHANGED <<written, writes, reads, content>>
  /\ UNCHANGED otherThanFile

\* file.writeData(data);
writeData(data) ==
  /\ fpc = "body"
  /\ writes < MaxWrites
  /\ IF fs.open
     THEN /\ fs' = insert(fs, data)
          /\ disk' = IF fs.fail \/ fs.eof THEN disk ELSE overwrite(disk, fs.pos, data)
     ELSE UNCHANGED <<fs, disk>>
  /\ written' = written \o data
  /\ writes' = writes + 1
  /\ last' = Op("writeData", None, None)
  /\ UNCHANGED <<fpc, openable, old, fhLive, reads, content, exc>>
  /\ UNCHANGED otherThanFile

\* std::string fileContent = file.readData();
readData ==
  /\ fpc = "body"
  /\ reads < MaxReads
  /\ LET r == getlineLoop(disk, seekg0(fs), <<>>) IN
     /\ fs' = r.f
     /\ content' = r.content
  /\ reads' = reads + 1
  /\ last' = Op("readData", None, None)
  /\ UNCHANGED <<fpc, openable, old, disk, fhLive, written, writes, exc>>
  /\ UNCHANGED otherThanFile

\* readData: content += line + '\n' cannot allocate and std::bad_alloc leaves
\* the try block.
readData_throws ==
  /\ fpc = "body"
  /\ reads < MaxReads
  /\ fs' = unwind(fs)
  /\ fhLive' = FALSE
  /\ exc' = "bad_alloc"
  /\ fpc' = "catch"
  /\ last' = Op("readData_throws", None, None)
  /\ UNCHANGED <<openable, old, disk, written, writes, reads, content>>
  /\ UNCHANGED otherThanFile

\* The closing brace of the try block: ~FileHandler().
blockEnd ==
  /\ fpc = "body"
  /\ fs' = fstreamDtor(fs)
  /\ fhLive' = FALSE
  /\ fpc' = "done"
  /\ last' = Op("blockEnd", None, None)
  /\ UNCHANGED <<openable, old, disk, written, writes, reads, content, exc>>
  /\ UNCHANGED otherThanFile

\* catch (const std::exception& e) { ...; return 1; }
catch_return ==
  /\ fpc = "catch"
  /\ fpc' = "exit1"
  /\ last' = Op("catch_return", None, None)
  /\ UNCHANGED <<openable, old, disk, fs, fhLive, written, writes, reads, content, exc>>
  /\ UNCHANGED otherThanFile

\* The FileHandler example.
NextFile ==
  \/ \E ok \in BOOLEAN, o \in OldContents : FileHandler(ok, o)
  \/ \E data \in Datas : writeData(data)
  \/ readData
  \/ readData_throws
  \/ blockEnd
  \/ catch_return

SpecFile == Init /\ [][NextFile]_vars

\* ------------------------------------------------- dereference and emptiness
\* What operator* / operator-> on an empty smart pointer may do: the behaviour is
\* undefined; the build either stops the program (a null pointer is read, or a
\* library assertion aborts) or goes on with an indeterminate value. No
\* exception is thrown.
UBOutcomes == {"crash", "indeterminate"}

\* Faulty variant of derefOutcomes: an empty pointer is detected and reported.
derefOutcomes_checked(p) == IF p # Null THEN {"value"} ELSE {"EmptyDereferenceError"}

\* *ptr / ptr->member on a smart pointer holding p.
derefOutcomes(p) == IF p # Null THEN {"value"} ELSE UBOutcomes

\* if (!ptr): what the test of a smart pointer holding p finds.
emptyTest(p) == IF p = Null THEN "empty" ELSE "holds"

\* The operations that dereference a smart pointer.
DerefOps == {"deref_shared", "deref_unique"}

\* The program has not been stopped by the dereference of an empty pointer.
running == ~(last.op \in DerefOps /\ last.b = "crash")

\* *s  (std::cout << *p1)
deref_shared(s) ==
  /\ inScope[s]
  /\ \E o \in derefOutcomes(sp[s]) : last' = Op("deref_shared", s, o)
  /\ UNCHANGED sharedVars
  /\ UNCHANGED otherThanShared

\* if (!s) { ... }
test_shared(s) ==
  /\ inScope[s]
  /\ last' = Op("test_shared", s, emptyTest(sp[s]))
  /\ UNCHANGED sharedVars
  /\ UNCHANGED otherThanShared

\* *u  (std::cout << *personPtr1), u->name
deref_unique(u) ==
  /\ uInScope[u]
  /\ \E o \in derefOutcomes(up[u]) : last' = Op("deref_unique", u, o)
  /\ UNCHANGED uniqueVars
  /\ UNCHANGED otherThanUnique

\* Resetting, moving from, testing and dereferencing the owners of main.
NextDeref ==
  \/ \E s \in DerefSlots : running /\ make_shared(s)
  \/ \E s \in DerefSlots : running /\ reset(s)
  \/ \E s \in DerefSlots : running /\ scopeExit(s)
  \/ \E s \in DerefSlots : running /\ test_shared(s)
  \/ \E s \in DerefSlots : running /\ deref_shared(s)
  \/ \E u \in UniqueSlots : running /\ make_unique(u)
  \/ \E u \in UniqueSlots : running /\ push_back_move(u)
  \/ \E u \in UniqueSlots : running /\ unique_reset(u)
  \/ \E u \in UniqueSlots : running /\ unique_scopeExit(u)
  \/ \E u \in UniqueSlots : running /\ deref_unique(u)

SpecDeref == Init /\ [][NextDeref]_vars

\* ----------------------------------------------------------------- claims
\* The shared_ptr variables that own the object of control block v.
owners(v) == {s \in SharedSlots : sp[s] = v}

\* C1: for every family created by one make_shared, after k added owners and m
\* released owners the use count is 1 + k - m, it is what use_count() returns
\* through every owner of the family, and it is the number of shared_ptr that
\* own the value.
C1_UseCountIsLiveOwners ==
  \A v \in Vals : cb[v].made =>
    /\ cb[v].strong = 1 + k[v] - m[v]
    /\ cb[v].strong = Cardinality(owners(v))
    /\ \A s \in owners(v) : use_count(cb, sp[s]) = 1 + k[v] - m[v]

\* C1 witness: p1, p2, p3 share one Person and two of them have been released.
C1_Witness ==
  \E v \in Vals : k[v] = 2 /\ m[v] = 2 /\ Cardinality(owners(v)) = 1

\* C2: the object is destroyed at most once, in exactly the step that takes the
\* use count from 1 to 0; it is alive whenever the count is positive and gone
\* whenever the count is 0.
C2_DestroyedOnceAtZero ==
  [][\A v \in Vals :
       /\ cb'[v].dtor <= 1
       /\ (cb'[v].dtor # cb[v].dtor) <=> (cb[v].strong = 1 /\ cb'[v].strong = 0)
       /\ cb'[v].made => (cb'[v].alive <=> cb'[v].strong > 0)]_vars

\* C2 witness: an assignment over the last owner destroyed the object.
C2_Witness ==
  /\ last.op = "assign"
  /\ \E v \in Vals : cb[v].made /\ cb[v].strong = 0 /\ cb[v].dtor = 1 /\ ~cb[v].alive

\* C3: lock() on a weak_ptr whose object has a positive use count returns a
\* shared_ptr to that object and adds one to the count; on an expired (or empty)
\* weak_ptr it returns an empty shared_ptr and changes no control block.
C3_LockResult ==
  [][last'.op = "lock" =>
       LET s == last'.a
           p == wp[last'.b]
       IN IF p # Null /\ cb[p].strong > 0
          THEN /\ sp'[s] = p
               /\ cb' = [cb EXCEPT ![p].strong = @ + 1]
               /\ cb'[p].alive
          ELSE /\ sp'[s] = Null
               /\ cb' = cb]_vars

\* C3 witness: a weak_ptr derived from a shared_ptr was locked after the last
\* owner was released, and lock() returned an empty shared_ptr.
C3_Witness ==
  /\ last.op = "lock"
  /\ wp[last.b] # Null
  /\ cb[wp[last.b]].strong = 0
  /\ sp[last.a] = Null

\* Creating, copying and destroying a weak_ptr.
WeakOps == {"weak_from_shared", "weak_copy", "weak_destroy"}

\* C4: creating a weak_ptr from a shared_ptr or from a weak_ptr, and destroying
\* it, leave every use count, every owner and every object as they are; and the
\* release of the last owner destroys the object in that step however many
\* weak_ptr observe it.
C4_WeakDoesNotOwn ==
  [][/\ last'.op \in WeakOps =>
          /\ sp' = sp
          /\ \A v \in Vals : /\ cb'[v].strong = cb[v].strong
                             /\ cb'[v].alive = cb[v].alive
                             /\ cb'[v].dtor = cb[v].dtor
     /\ \A v \in Vals :
          (cb[v].strong = 1 /\ cb'[v].strong = 0 /\ cb[v].weak > 0)
            => (~cb'[v].alive /\ cb'[v].dtor = 1 /\ cb'[v].weak = cb[v].weak)]_vars

\* C4 witness: both weak_ptr observe a control block whose object is gone.
C4_Witness ==
  \E v \in Vals : cb[v].weak = 2 /\ cb[v].strong = 0 /\ ~cb[v].alive /\ ~cb[v].freed

\* C5: every Person made by make_unique has at most one owner among the
\* unique_ptr variables and the elements of the vector; a live Person has
\* exactly one and a deleted Person none.
C5_AtMostOneOwner ==
  \A o \in Objs :
    /\ uOwners(o) <= 1
    /\ (o \in uLive) <=> (uOwners(o) = 1)

\* C5 witness: the vector owns two Persons, one of them moved in from a variable
\* that is still in scope, and a third Person has been deleted.
C5_Witness ==
  /\ Len(persons) = 2
  /\ Cardinality(Range(persons) \intersect uLive) = 2
  /\ \E u \in UniqueSlots : uInScope[u] /\ up[u] = Null
  /\ \E o \in Objs : uDtor[o] = 1

\* C6: push_back(std::move(u)) leaves u empty and makes the new last element
\* of the vector the sole owner of the very Person u owned: the other
\* elements stay, nothing is allocated and nothing is deleted.
C6_MoveTransfers ==
  [][last'.op = "push_back_move" =>
       LET u == last'.a IN
       /\ up'[u] = Null
       /\ persons' = Append(persons, up[u])
       /\ uAlloc' = uAlloc
       /\ uLive' = uLive
       /\ uDtor' = uDtor
       /\ \A x \in UniqueSlots \ {u} : up'[x] = up[x]]_vars

\* C6 witness: a live Person was moved from a variable into the vector.
C6_Witness ==
  /\ last.op = "push_back_move"
  /\ up[last.a] = Null
  /\ persons # <<>>
  /\ persons[Len(persons)] \in uLive

\* The Comments that are alive and observe the Post.
observers == {c \in Comments : cCb[c].alive /\ cPost[c] # Null}

\* C7: once every shared_ptr<Post> has been dropped the Post is destroyed (once),
\* whatever Comments are still alive and observe it, and lock() on the member
\* post of each of them returns an empty shared_ptr.
C7_PostDestroyedDespiteObservers ==
  /\ (postCb[1].made /\ \A s \in PostSlots : postOwner[s] = Null) =>
       /\ ~postCb[1].alive
       /\ postCb[1].strong = 0
       /\ postCb[1].dtor = 1
       /\ \A c \in observers : lockTarget(postCb, cPost[c]) = Null
  /\ (last.op = "lock_post" /\ ~postCb[1].alive) => postOwner["sharedPost"] = Null

\* C7 witness: the Post is gone, the three Comments are alive through comment1,
\* comment2 and comment3 and still observe it, and a lock() on one of them has
\* just returned an empty shared_ptr.
C7_Witness ==
  /\ postCb[1].dtor = 1
  /\ observers = Comments
  /\ \A c \in Comments : cVar[c] = "owns" /\ cCb[c].strong = 1
  /\ postCb[1].weak = 3
  /\ ~postCb[1].freed
  /\ last.op = "lock_post"
  /\ postOwner["sharedPost"] = Null

\* C8: while the FileHandler exists its file is open and has not been closed;
\* once a constructed FileHandler has left the try block, at its end or by an
\* exception thrown between the writes and the read, the file has been closed
\* exactly once and is not open.
C8_ReleasedExactlyOnce ==
  /\ fhLive <=> fpc = "body"
  /\ fhLive => (fs.open /\ fs.opens = 1 /\ fs.closes = 0)
  /\ (~fhLive /\ fs.opens = 1) => (~fs.open /\ fs.closes = 1)
  /\ fs.closes <= fs.opens
  /\ fs.opens <= 1

\* C8 witness: std::bad_alloc left the try block after two writes and the file
\* was closed once.
C8_Witness ==
  /\ exc = "bad_alloc"
  /\ writes = 2
  /\ fs.closes = 1
  /\ fpc = "exit1"

C10_ReadReturnsWritten ==
  (last.op = "readData" /\ reads = 1 /\ writes >= 1) => content = written

C13_SameValueAssignKeepsValue ==
  [][(last'.op = "assign" /\ sp[last'.a] # Null /\ sp[last'.a] = sp[last'.b]) =>
       /\ cb' = cb
       /\ sp' = sp]_vars

\* C13 witness: a shared_ptr that is the only owner of its Person has been
\* assigned to itself and the Person is alive.
C13_Witness ==
  /\ last.op = "assign"
  /\ last.a = last.b
  /\ sp[last.a] # Null
  /\ cb[sp[last.a]].strong = 1
  /\ cb[sp[last.a]].alive
  /\ cb[sp[last.a]].dtor = 0

\* What the owner dereferenced or tested last holds.
lastHeld ==
  IF last.op = "deref_unique" THEN up[last.a] ELSE sp[last.a]

\* C12 (as claimed): the dereference of an owner that holds no value signals
\* EmptyDereferenceError to the caller.
C12_EmptyDereferenceSignalsError ==
  (last.op \in DerefOps /\ lastHeld = Null) => last.b = "EmptyDereferenceError"

\* C12 (amended): the dereference of an owner that holds a value yields the
\* value; the dereference of an owner that holds none signals no error, its
\* behaviour is undefined; an emptiness test reports empty exactly for an
\* owner that holds no value; and the test and the dereference of an owner that
\* holds a value change no owner, no count and no value.
C12_DerefDefinedOnlyWhenHolding ==
  [][(last'.op \in DerefOps \union {"test_shared"}) =>
       LET p == IF last'.op = "deref_unique" THEN up[last'.a] ELSE sp[last'.a] IN
       /\ (last'.op \in DerefOps /\ p # Null) => last'.b = "value"
       /\ (last'.op \in DerefOps /\ p = Null) => last'.b \in UBOutcomes
       /\ last'.op = "test_shared" => (last'.b = "empty" <=> p = Null)
       /\ (last'.op = "test_shared" \/ p # Null) =>
            (sharedVars' = sharedVars /\ uniqueVars' = uniqueVars)]_vars

\* C12 witness: a unique_ptr that was moved into the vector has been
\* dereferenced and the program was stopped; no error was signalled.
C12_Witness ==
  /\ last.op = "deref_unique"
  /\ up[last.a] = Null
  /\ last.b = "crash"
  /\ persons # <<>>
  /\ persons[Len(persons)] \in uLive
====
